---- MODULE Spec2Model ----
(***************************************************************************)
(* The websocket client of eufy-security-ws-python as a state machine:     *)
(* WebsocketClient (client.py) with its command callers, its receive loop  *)
(* and the Driver the loop feeds (model/driver.py).  Every task of the     *)
(* asyncio event loop is a process; an action is the code a task runs      *)
(* between two suspension points (await).  The server is the environment:  *)
(* every receive() may deliver any frame of ServerFrames.                  *)
(***************************************************************************)
EXTENDS Integers, FiniteSets, Sequences, TLC

--------------------------------------------------------------------------
(* Bounds of the model *)

\* number of tasks that call async_send_command or async_send_command_no_wait,
\* once each
NumCallers == 2
\* largest schema number a handshake or a require_schema argument carries
MaxSchema == 2

\* number of subscriptions made on an event bus
MaxListeners == 2

(* Client-side constants (const.py) *)
MIN_SERVER_SCHEMA_VERSION == 0
MAX_SERVER_SCHEMA_VERSION == 1

--------------------------------------------------------------------------
(* Values *)

\* Python's None, for the Optional attributes of the client
None == [none |-> TRUE]

Callers == 1..NumCallers

\* uuid.uuid4().hex: the n-th identifier generated, all distinct
Uuids == <<"m1", "m2", "m3", "m4", "m5", "m6", "m7", "m8">>
uuid4(n) == Uuids[n]

\* message ids a server frame may carry: generated ones and the two fixed
\* identifiers of the bootstrap commands
MessageIds == {uuid4(n) : n \in 1..NumCallers} \cup {"set_api_schema", "start_listening"}

ErrorCodes == {"e1", "e2"}

\* state snapshot carried by the result of start_listening
Snapshot ==
    [state |-> [driver   |-> [connected |-> TRUE],
                stations |-> <<[serialNumber |-> "S1", currentMode |-> 0]>>,
                devices  |-> <<[serialNumber |-> "D1", stationSerialNumber |-> "S1"]>>]]

\* result payloads: an opaque command result and the snapshot
Results == {[data |-> "p1"], Snapshot}

\* result frames (server -> client), success carries result, failure errorCode
ResultPayloads ==
    {[type |-> "result", messageId |-> id, success |-> TRUE, result |-> r] :
        id \in MessageIds, r \in Results}
    \cup
    {[type |-> "result", messageId |-> id, success |-> FALSE, errorCode |-> e] :
        id \in MessageIds, e \in ErrorCodes}

\* event envelopes (server -> client)
Events ==
    { [source |-> "station", event |-> "property changed", serialNumber |-> "S1",
       name |-> "currentMode", value |-> 63],
      [source |-> "station", event |-> "property changed", serialNumber |-> "S9",
       name |-> "currentMode", value |-> 63],
      [source |-> "driver", event |-> "connected"] }

EventPayloads == {[type |-> "event", event |-> e] : e \in Events}

\* a snapshot with two stations and one device
TwoStations ==
    [state |-> [driver   |-> [connected |-> TRUE],
                stations |-> <<[serialNumber |-> "S1", currentMode |-> 0],
                               [serialNumber |-> "S2", currentMode |-> 0]>>,
                devices  |-> <<[serialNumber |-> "D1", stationSerialNumber |-> "S1"]>>]]

\* event envelopes of the steady state: property changes for known and unknown
\* serial numbers, a property change without its name, events no entity has a
\* handler for, and events that name another source or none
DriverEvents ==
    { [source |-> src, event |-> "property changed", serialNumber |-> sn,
       name |-> n, value |-> v] :
        src \in {"station", "device"}, sn \in {"S1", "S2", "D1", "S9"},
        n \in {"currentMode", "guardMode"}, v \in {0, 63} }
    \cup
    { [source |-> "station", event |-> "property changed", serialNumber |-> "S1"],
      [source |-> "station", event |-> "guard mode changed", serialNumber |-> "S1"],
      [source |-> "station", event |-> "motion detected", serialNumber |-> "S2"],
      [source |-> "device", event |-> "motion detected", serialNumber |-> "D1"],
      [source |-> "station", event |-> "connected"],
      [source |-> "driver", event |-> "connected"],
      [source |-> "driver", event |-> "property changed", name |-> "currentMode",
       value |-> 63],
      [event |-> "connected"] }

DriverEventFrames ==
    {[type |-> "TEXT", json |-> [type |-> "event", event |-> e]] : e \in DriverEvents}

\* a snapshot without stations and devices
NoEntities ==
    [state |-> [driver |-> [connected |-> TRUE], stations |-> << >>, devices |-> << >>]]

\* results of start_listening a Driver is built from: snapshots with serial
\* numbers that differ within each list, and a result without a snapshot
StartListeningResults ==
    {[type |-> "result", messageId |-> "start_listening", success |-> TRUE, result |-> r] :
        r \in {Snapshot, TwoStations, NoEntities, [data |-> "p1"]}}

\* event envelopes that change properties of known entities, the serial
\* number among the properties
SerialEvents ==
    { [source |-> "station", event |-> "property changed", serialNumber |-> sn,
       name |-> "serialNumber", value |-> v] :
        sn \in {"S1", "S2"}, v \in {"S1", "S2", "S9"} }
    \cup
    { [source |-> "device", event |-> "property changed", serialNumber |-> "D1",
       name |-> "serialNumber", value |-> v] : v \in {"D1", "D9"} }
    \cup
    { [source |-> src, event |-> "property changed", serialNumber |-> sn,
       name |-> "currentMode", value |-> 63] :
        src \in {"station", "device"}, sn \in {"S1", "S2", "D1"} }

SerialEventFrames ==
    {[type |-> "TEXT", json |-> [type |-> "event", event |-> e]] : e \in SerialEvents}

\* event names, payloads and application callbacks of an event bus: f and g
\* return at once, r emits event "a" again with the data it was given
EventNames == {"a", "b"}
Datas == {1, 2}
Callbacks == {"f", "g", "r"}

\* handshake objects: schema bounds are optional
VersionPayloads ==
    {[type |-> "version", driverVersion |-> "0.8.2", serverVersion |-> "0.1.2",
      minSchemaVersion |-> lo, maxSchemaVersion |-> hi] :
        lo \in 0..MaxSchema, hi \in 0..MaxSchema}
    \cup
    {[type |-> "version", driverVersion |-> "0.8.2", serverVersion |-> "0.1.2",
      maxSchemaVersion |-> hi] : hi \in 0..MaxSchema}
    \cup
    {[type |-> "version", driverVersion |-> "0.8.2", serverVersion |-> "0.1.2",
      minSchemaVersion |-> lo] : lo \in 0..MaxSchema}
    \cup
    {[type |-> "version", driverVersion |-> "0.8.2", serverVersion |-> "0.1.2"]}

\* a message type the client does not know
UnknownPayloads == {[type |-> "unknown"]}

\* WSMessage objects returned by ClientWebSocketResponse.receive():
\* text frames with a JSON document, a text frame that is not JSON, and the
\* other frame kinds
TextFrames(payloads) == {[type |-> "TEXT", json |-> p] : p \in payloads}
OtherFrames ==
    {[type |-> "TEXT", data |-> "not json"]} \cup
    {[type |-> t] : t \in {"BINARY", "ERROR", "CLOSE", "CLOSED", "CLOSING"}}

\* frames the server may deliver once the handshake is done
ServerFrames ==
    TextFrames(ResultPayloads \cup EventPayloads \cup UnknownPayloads) \cup OtherFrames

\* frames the server may deliver as the first frame of a connection
HandshakeFrames ==
    TextFrames(VersionPayloads \cup UnknownPayloads) \cup OtherFrames

\* the require_schema keyword argument: absent (None) or an integer
RequireSchemas ==
    {None} \cup {[value |-> n] : n \in 0..MaxSchema}

--------------------------------------------------------------------------
(* State *)

VARIABLES
    client,                  \* self._client: "None" or "ws" (a socket object)
    closed,                  \* self._client.closed of the current socket
    result_futures,          \* keys of self._result_futures
    futures,                 \* the asyncio.Future created for each message id
    schema_version,          \* self.schema_version
    version,                 \* self.version
    driver,                  \* self.driver
    shutdown_complete_event, \* self._shutdown_complete_event
    sent,                    \* frames written with send_json, on any socket
    next_id,                 \* number of identifiers uuid4() has generated
    mainPc,                  \* position of the task that connects/disconnects
    connectOut,              \* how async_connect ended
    listenPc,                \* position of the task running async_listen
    listenExc,               \* exception in flight while its cleanup awaits close
    listenOut,               \* how the last async_listen ended
    state_msg,               \* the start_listening result async_listen holds
    driver_ready,            \* set() calls on the driver_ready Event of this run
    emitted,                 \* Driver.emit calls made for the frame last processed
    observed,                \* the maps a callback of the Driver read during that emit
    callPc,                  \* position of each command caller
    callId,                  \* message id of the command a caller awaits
    callOut,                 \* how each caller's last call ended
    listeners,               \* EventBase._listeners: event name -> list of callables
    onces,                   \* number of event_listener closures once() created
    calls,                   \* callbacks invoked by the last emit, with their data
    fired,                   \* invocations of each once() registration's callback
    emitOut,                 \* how the last emit ended
    handles                  \* unsubscribe closures the application kept, with their calls

vars == <<client, closed, result_futures, futures, schema_version, version, driver,
          shutdown_complete_event, sent, next_id, mainPc, connectOut,
          listenPc, listenExc, listenOut, state_msg, driver_ready, emitted, observed,
          callPc, callId, callOut,
          listeners, onces, calls, fired, emitOut, handles>>

clientVars == <<client, closed, schema_version, version>>
mainVars   == <<mainPc, connectOut>>
listenVars == <<listenPc, listenExc, listenOut, state_msg, driver_ready, driver,
                shutdown_complete_event, emitted, observed>>
callVars   == <<callPc, callId, callOut, next_id>>
busVars    == <<listeners, onces, calls, fired, emitOut, handles>>
wsVars     == <<clientVars, mainVars, listenVars, callVars, result_futures, futures, sent>>

Init ==
    /\ client = "None"
    /\ closed = FALSE
    /\ result_futures = {}
    /\ futures = << >>
    /\ schema_version = MAX_SERVER_SCHEMA_VERSION
    /\ version = None
    /\ driver = None
    /\ shutdown_complete_event = None
    /\ sent = {}
    /\ next_id = 0
    /\ mainPc = "idle"
    /\ connectOut = "none"
    /\ listenPc = "idle"
    /\ listenExc = "none"
    /\ listenOut = "none"
    /\ state_msg = None
    /\ driver_ready = 0
    /\ emitted = << >>
    /\ observed = None
    /\ callPc = [c \in Callers |-> "idle"]
    /\ callId = [c \in Callers |-> "none"]
    /\ callOut = [c \in Callers |-> [kind |-> "none"]]
    /\ listeners = << >>
    /\ onces = 0
    /\ calls = << >>
    /\ fired = [n \in 1..MaxListeners |-> 0]
    /\ emitOut = "none"
    /\ handles = << >>

--------------------------------------------------------------------------
(* Helpers: dictionaries, futures, the socket *)

\* key in dict
Has(d, k) == k \in DOMAIN d

\* asyncio.Future: PENDING, CANCELLED, or FINISHED with a result or an exception
PendingFuture == [state |-> "PENDING"]
CancelledFuture == [state |-> "CANCELLED"]
ResultFuture(r) == [state |-> "FINISHED", result |-> r]
ExceptionFuture(e) == [state |-> "FINISHED", exception |-> e]

\* FailedCommand constructed with its two arguments in the wrong order
FailedCommand_swapped(message_id, error_code) ==
    [type |-> "FailedCommand", message_id |-> error_code, error_code |-> message_id]

\* errors.py: FailedCommand(message_id, error_code)
FailedCommand(message_id, error_code) ==
    [type |-> "FailedCommand", message_id |-> message_id, error_code |-> error_code]

\* WebsocketClient.connected
connected == client # "None" /\ ~closed

\* from_message taking the client's own maximum for a schema bound the
\* handshake leaves out
from_message_default_max(m) ==
    [driver_version     |-> m.driverVersion,
     server_version     |-> m.serverVersion,
     min_schema_version |-> IF Has(m, "minSchemaVersion") THEN m.minSchemaVersion
                            ELSE MAX_SERVER_SCHEMA_VERSION,
     max_schema_version |-> IF Has(m, "maxSchemaVersion") THEN m.maxSchemaVersion
                            ELSE MAX_SERVER_SCHEMA_VERSION]

\* VersionInfo.from_message
from_message(m) ==
    [driver_version     |-> m.driverVersion,
     server_version     |-> m.serverVersion,
     min_schema_version |-> IF Has(m, "minSchemaVersion") THEN m.minSchemaVersion ELSE 0,
     max_schema_version |-> IF Has(m, "maxSchemaVersion") THEN m.maxSchemaVersion ELSE 0]

\* _async_receive_json taking an ERROR frame for one of the closing frames
async_receive_json_error_as_close(m) ==
    IF m.type \in {"CLOSE", "CLOSED", "CLOSING", "ERROR"} THEN [exc |-> "ConnectionClosed"]
    ELSE IF m.type # "TEXT" THEN [exc |-> "InvalidMessage"]
    ELSE IF ~Has(m, "json") THEN [exc |-> "InvalidMessage"]
    ELSE [exc |-> "", data |-> m.json]

\* WebsocketClient._async_receive_json applied to the frame receive() returned:
\* the exception it raises ("" for none) and the decoded document
async_receive_json(m) ==
    IF m.type \in {"CLOSE", "CLOSED", "CLOSING"} THEN [exc |-> "ConnectionClosed"]
    ELSE IF m.type = "ERROR" THEN [exc |-> "ConnectionFailed"]
    ELSE IF m.type # "TEXT" THEN [exc |-> "InvalidMessage"]
    ELSE IF ~Has(m, "json") THEN [exc |-> "InvalidMessage"]
    ELSE [exc |-> "", data |-> m.json]

\* the version check without its test of the server's minimum
IncompatibleVersion_max_only(v) ==
    v.max_schema_version < MAX_SERVER_SCHEMA_VERSION

\* the version check without its test of the server's maximum
IncompatibleVersion_min_only(v) ==
    v.min_schema_version > MIN_SERVER_SCHEMA_VERSION

\* the version check of async_connect: TRUE when the handshake is rejected
IncompatibleVersion(v) ==
    \/ v.min_schema_version > MIN_SERVER_SCHEMA_VERSION
    \/ v.max_schema_version < MAX_SERVER_SCHEMA_VERSION

\* the schema async_connect pins for an accepted handshake
NegotiatedSchema(v, current) ==
    IF v.max_schema_version < MAX_SERVER_SCHEMA_VERSION
    THEN v.max_schema_version
    ELSE current

\* the guard comparing require_schema with the server's advertised maximum
\* instead of the schema the session pinned
SchemaUnavailable_server_max(require_schema) ==
    /\ require_schema # None
    /\ require_schema.value # 0
    /\ require_schema.value >
           (IF version = None THEN MAX_SERVER_SCHEMA_VERSION ELSE version.max_schema_version)

\* the guard shared by async_send_command and async_send_command_no_wait:
\* "require_schema and require_schema > self.schema_version"
SchemaUnavailable(require_schema) ==
    /\ require_schema # None
    /\ require_schema.value # 0
    /\ require_schema.value > schema_version

--------------------------------------------------------------------------
(* Driver and entities *)

\* Station / Device: the property bag handed to the constructor
Entity(state) == state

\* Driver(client, state) mapping each device under the serial number of its
\* station
DriverOf_devices_by_station(state) ==
    LET st == state.result.state
    IN  [stations |-> [k \in {st.stations[i].serialNumber : i \in DOMAIN st.stations} |->
                         Entity(CHOOSE s \in {st.stations[i] : i \in DOMAIN st.stations} :
                                    s.serialNumber = k)],
         devices  |-> [k \in {st.devices[i].stationSerialNumber : i \in DOMAIN st.devices} |->
                         Entity(CHOOSE s \in {st.devices[i] : i \in DOMAIN st.devices} :
                                    s.stationSerialNumber = k)]]

\* Driver(client, state): the maps built from the snapshot's lists
DriverOf(state) ==
    LET st == state.result.state
    IN  [stations |-> [k \in {st.stations[i].serialNumber : i \in DOMAIN st.stations} |->
                         Entity(CHOOSE s \in {st.stations[i] : i \in DOMAIN st.stations} :
                                    s.serialNumber = k)],
         devices  |-> [k \in {st.devices[i].serialNumber : i \in DOMAIN st.devices} |->
                         Entity(CHOOSE s \in {st.devices[i] : i \in DOMAIN st.devices} :
                                    s.serialNumber = k)]]

\* whether Driver(client, state) finds the snapshot it iterates
HasSnapshot(state) ==
    /\ Has(state, "result")
    /\ Has(state.result, "state")

\* the handle_<type> methods each class defines
Handlers(kind) ==
    IF kind = "station"
    THEN {"connected", "disconnected", "guard mode changed", "property changed"}
    ELSE IF kind = "device" THEN {"property changed"}
    ELSE {}

\* handle_property_changed rebinding the property bag to the one property
\* instead of storing into it
handle_property_changed_replace(state, data) ==
    [k \in {data.name} |-> data.value]

\* Station.handle_property_changed / Device.handle_property_changed
handle_property_changed(state, data) ==
    [k \in DOMAIN state \cup {data.name} |->
        IF k = data.name THEN data.value ELSE state[k]]

\* _handle_event_protocol looking the handler up without a default: an event
\* type without a handler raises AttributeError
handle_event_protocol_no_default(kind, state, event) ==
    IF event.type \notin Handlers(kind) THEN [exc |-> "AttributeError", state |-> state]
    ELSE IF event.type # "property changed" THEN [exc |-> "", state |-> state]
    ELSE IF ~Has(event.data, "name") \/ ~Has(event.data, "value")
         THEN [exc |-> "KeyError", state |-> state]
    ELSE [exc |-> "", state |-> handle_property_changed(state, event.data)]

\* EventBase._handle_event_protocol on an entity of the given kind: the
\* exception raised ("" for none) and the entity's property bag afterwards
handle_event_protocol(kind, state, event) ==
    IF event.type \notin Handlers(kind) THEN [exc |-> "", state |-> state]
    ELSE IF event.type # "property changed" THEN [exc |-> "", state |-> state]
    ELSE IF ~Has(event.data, "name") \/ ~Has(event.data, "value")
         THEN [exc |-> "KeyError", state |-> state]
    ELSE [exc |-> "", state |-> handle_property_changed(state, event.data)]

\* Driver.receive_event looking its entity up with setdefault: an unknown
\* serial number gets an entity of its own
receive_event_setdefault(drv, event) ==
    LET raised(exc) == [exc |-> exc, driver |-> drv, emitted |-> << >>, seen |-> None]
        emission == [name |-> event.type, data |-> event.data]
        handled(r, d) ==
            IF r.exc # "" THEN [exc |-> r.exc, driver |-> d, emitted |-> << >>, seen |-> None]
            ELSE [exc |-> "", driver |-> d, emitted |-> <<emission>>, seen |-> d]
        entity(map, sn) == IF sn \in DOMAIN map THEN map[sn] ELSE [serialNumber |-> sn]
        stored(map, sn, state) ==
            [k \in DOMAIN map \cup {sn} |-> IF k = sn THEN state ELSE map[k]]
    IN
    IF ~Has(event.data, "source") THEN raised("KeyError")
    ELSE IF event.data.source = "station" THEN
        IF ~Has(event.data, "serialNumber") THEN raised("KeyError")
        ELSE LET sn == event.data.serialNumber
                 r == handle_event_protocol("station", entity(drv.stations, sn), event)
             IN  handled(r, [drv EXCEPT !.stations = stored(drv.stations, sn, r.state)])
    ELSE IF event.data.source = "device" THEN
        IF ~Has(event.data, "serialNumber") THEN raised("KeyError")
        ELSE LET sn == event.data.serialNumber
                 r == handle_event_protocol("device", entity(drv.devices, sn), event)
             IN  handled(r, [drv EXCEPT !.devices = stored(drv.devices, sn, r.state)])
    ELSE handled(handle_event_protocol("driver", drv, event), drv)

\* EventBase.emit on the Driver: the call, with its two arguments
Emission(event) == [name |-> event.type, data |-> event.data]

\* Driver.receive_event looking its entity up with get(): an event for an
\* unknown serial number reaches no entity and is emitted like any other
receive_event_get(drv, event) ==
    LET raised(exc) == [exc |-> exc, driver |-> drv, emitted |-> << >>, seen |-> None]
        handled(r, d) ==
            IF r.exc # "" THEN [exc |-> r.exc, driver |-> d, emitted |-> << >>, seen |-> None]
            ELSE [exc |-> "", driver |-> d, emitted |-> <<Emission(event)>>, seen |-> d]
        skipped == [exc |-> "", driver |-> drv, emitted |-> <<Emission(event)>>, seen |-> drv]
    IN
    IF ~Has(event.data, "source") THEN raised("KeyError")
    ELSE IF event.data.source = "station" THEN
        IF ~Has(event.data, "serialNumber") THEN raised("KeyError")
        ELSE IF event.data.serialNumber \notin DOMAIN drv.stations THEN skipped
        ELSE LET r == handle_event_protocol("station",
                          drv.stations[event.data.serialNumber], event)
             IN  handled(r, [drv EXCEPT !.stations[event.data.serialNumber] = r.state])
    ELSE IF event.data.source = "device" THEN
        IF ~Has(event.data, "serialNumber") THEN raised("KeyError")
        ELSE IF event.data.serialNumber \notin DOMAIN drv.devices THEN skipped
        ELSE LET r == handle_event_protocol("device",
                          drv.devices[event.data.serialNumber], event)
             IN  handled(r, [drv EXCEPT !.devices[event.data.serialNumber] = r.state])
    ELSE handled(handle_event_protocol("driver", drv, event), drv)

\* Driver.receive_event emitting before it delegates: the callbacks read the
\* maps as they were, and an exception of the handler comes after the emit
receive_event_emit_first(drv, event) ==
    LET raised(exc) == [exc |-> exc, driver |-> drv, emitted |-> << >>, seen |-> None]
        handled(r, d) ==
            [exc |-> r.exc, driver |-> d, emitted |-> <<Emission(event)>>, seen |-> drv]
    IN
    IF ~Has(event.data, "source") THEN raised("KeyError")
    ELSE IF event.data.source = "station" THEN
        IF ~Has(event.data, "serialNumber") \/ event.data.serialNumber \notin DOMAIN drv.stations
        THEN raised("KeyError")
        ELSE LET r == handle_event_protocol("station",
                          drv.stations[event.data.serialNumber], event)
             IN  handled(r, [drv EXCEPT !.stations[event.data.serialNumber] = r.state])
    ELSE IF event.data.source = "device" THEN
        IF ~Has(event.data, "serialNumber") \/ event.data.serialNumber \notin DOMAIN drv.devices
        THEN raised("KeyError")
        ELSE LET r == handle_event_protocol("device",
                          drv.devices[event.data.serialNumber], event)
             IN  handled(r, [drv EXCEPT !.devices[event.data.serialNumber] = r.state])
    ELSE handled(handle_event_protocol("driver", drv, event), drv)

\* Driver.receive_event: the exception raised ("" for none), the driver
\* afterwards, the emit calls made and the maps as a callback of the Driver
\* reads them during the emit; an exception leaves before the emit
receive_event(drv, event) ==
    LET raised(exc) == [exc |-> exc, driver |-> drv, emitted |-> << >>, seen |-> None]
        handled(r, d) ==
            IF r.exc # "" THEN [exc |-> r.exc, driver |-> d, emitted |-> << >>, seen |-> None]
            ELSE [exc |-> "", driver |-> d, emitted |-> <<Emission(event)>>, seen |-> d]
    IN
    IF ~Has(event.data, "source") THEN raised("KeyError")
    ELSE IF event.data.source = "station" THEN
        IF ~Has(event.data, "serialNumber") \/ event.data.serialNumber \notin DOMAIN drv.stations
        THEN raised("KeyError")
        ELSE LET r == handle_event_protocol("station",
                          drv.stations[event.data.serialNumber], event)
             IN  handled(r, [drv EXCEPT !.stations[event.data.serialNumber] = r.state])
    ELSE IF event.data.source = "device" THEN
        IF ~Has(event.data, "serialNumber") \/ event.data.serialNumber \notin DOMAIN drv.devices
        THEN raised("KeyError")
        ELSE LET r == handle_event_protocol("device",
                          drv.devices[event.data.serialNumber], event)
             IN  handled(r, [drv EXCEPT !.devices[event.data.serialNumber] = r.state])
    ELSE handled(handle_event_protocol("driver", drv, event), drv)

--------------------------------------------------------------------------
(* WebsocketClient._parse_response_payload *)

\* _parse_response_payload resolving the future with the whole frame instead
\* of its "result" member
parse_response_payload_whole_frame(payload, futs, keys, drv) ==
    IF payload.type = "result" /\ payload.messageId \in keys
       /\ futs[payload.messageId].state = "PENDING" /\ payload.success
    THEN [exc |-> "",
          futures |-> [futs EXCEPT ![payload.messageId] = ResultFuture(payload)],
          driver |-> drv, emitted |-> << >>, seen |-> None]
    ELSE [exc |-> "", futures |-> futs, driver |-> drv, emitted |-> << >>, seen |-> None]

\* _parse_response_payload without the "return" after set_result: it goes on
\* to build FailedCommand from an errorCode the frame does not carry
parse_response_payload_no_return(payload, futs, keys, drv) ==
    IF payload.type = "result" /\ payload.messageId \in keys
       /\ futs[payload.messageId].state = "PENDING"
    THEN IF payload.success
         THEN [exc |-> "KeyError",
               futures |-> [futs EXCEPT ![payload.messageId] =
                               ResultFuture(payload.result)],
               driver |-> drv, emitted |-> << >>, seen |-> None]
         ELSE [exc |-> "",
               futures |-> [futs EXCEPT ![payload.messageId] =
                               ExceptionFuture(FailedCommand(payload.messageId,
                                                             payload.errorCode))],
               driver |-> drv, emitted |-> << >>, seen |-> None]
    ELSE [exc |-> "", futures |-> futs, driver |-> drv, emitted |-> << >>, seen |-> None]

\* _parse_response_payload without the test of the type before the event is
\* built: a frame that is no result is read as an event
parse_response_payload_no_type_test(payload, futs, keys, drv) ==
    IF payload.type = "result" THEN
        IF payload.messageId \notin keys
        THEN [exc |-> "", futures |-> futs, driver |-> drv, emitted |-> << >>, seen |-> None]
        ELSE IF futs[payload.messageId].state # "PENDING"
        THEN [exc |-> "InvalidStateError", futures |-> futs, driver |-> drv, emitted |-> << >>, seen |-> None]
        ELSE IF payload.success
        THEN [exc |-> "",
              futures |-> [futs EXCEPT ![payload.messageId] = ResultFuture(payload.result)],
              driver |-> drv, emitted |-> << >>, seen |-> None]
        ELSE [exc |-> "",
              futures |-> [futs EXCEPT ![payload.messageId] =
                              ExceptionFuture(FailedCommand(payload.messageId,
                                                            payload.errorCode))],
              driver |-> drv, emitted |-> << >>, seen |-> None]
    ELSE IF ~Has(payload, "event")
    THEN [exc |-> "KeyError", futures |-> futs, driver |-> drv, emitted |-> << >>, seen |-> None]
    ELSE LET event == [type |-> payload.event.event, data |-> payload.event]
             r == receive_event(drv, event)
         IN  [exc |-> r.exc, futures |-> futs, driver |-> r.driver, emitted |-> r.emitted,
              seen |-> r.seen]

\* The exception raised ("" for none), the futures and the driver afterwards.
\* Future.set_result and Future.set_exception raise InvalidStateError on a
\* future that is no longer pending.
parse_response_payload(payload, futs, keys, drv) ==
    IF payload.type = "result" THEN
        IF payload.messageId \notin keys
        THEN [exc |-> "", futures |-> futs, driver |-> drv, emitted |-> << >>, seen |-> None]
        ELSE IF futs[payload.messageId].state # "PENDING"
        THEN [exc |-> "InvalidStateError", futures |-> futs, driver |-> drv, emitted |-> << >>, seen |-> None]
        ELSE IF payload.success
        THEN [exc |-> "",
              futures |-> [futs EXCEPT ![payload.messageId] = ResultFuture(payload.result)],
              driver |-> drv, emitted |-> << >>, seen |-> None]
        ELSE [exc |-> "",
              futures |-> [futs EXCEPT ![payload.messageId] =
                              ExceptionFuture(FailedCommand(payload.messageId,
                                                            payload.errorCode))],
              driver |-> drv, emitted |-> << >>, seen |-> None]
    ELSE IF payload.type # "event"
    THEN [exc |-> "", futures |-> futs, driver |-> drv, emitted |-> << >>, seen |-> None]
    ELSE LET event == [type |-> payload.event.event, data |-> payload.event]
             r == receive_event(drv, event)
         IN  [exc |-> r.exc, futures |-> futs, driver |-> r.driver, emitted |-> r.emitted,
              seen |-> r.seen]

--------------------------------------------------------------------------
(* The socket *)

\* "await self._client.close()" suspends the task that calls it; the socket
\* reports closed when the call starts or at the latest when it returns
CloseBegin == \E early \in BOOLEAN : closed' = (closed \/ early)
CloseEnd == closed' = TRUE

\* command frames (client -> server)
SetApiSchemaFrame ==
    [command |-> "set_api_schema", messageId |-> "set_api_schema",
     schemaVersion |-> schema_version]
StartListeningFrame ==
    [command |-> "start_listening", messageId |-> "start_listening"]
CommandFrame(message_id) ==
    [command |-> "command", messageId |-> message_id]

--------------------------------------------------------------------------
(* async_connect and async_disconnect: the main task *)

ListenerIdle == listenPc \in {"idle", "done"}

\* async_connect up to its first suspension: ws_connect opens a socket or fails
ConnectOpen ==
    /\ mainPc = "idle"
    /\ client = "None"
    /\ \E outcome \in {"ok", "ServerDisconnectedError", "ClientError"} :
        IF outcome = "ok"
        THEN /\ client' = "ws"
             /\ closed' = FALSE
             /\ mainPc' = "handshake"
             /\ connectOut' = "none"
        ELSE /\ connectOut' = IF outcome = "ServerDisconnectedError"
                           THEN "ConnectionClosed" ELSE "CannotConnectError"
             /\ UNCHANGED <<client, closed, mainPc>>
    /\ UNCHANGED <<schema_version, version, result_futures, futures, sent>>
    /\ UNCHANGED <<listenVars, callVars, busVars>>

\* async_connect from the handshake frame on: parse, check, pin the schema
ConnectHandshake(m) ==
    /\ mainPc = "handshake"
    /\ LET r == async_receive_json(m)
       IN  IF r.exc # ""
           THEN /\ connectOut' = r.exc
                /\ mainPc' = "idle"
                /\ UNCHANGED <<version, schema_version, closed>>
           ELSE IF ~Has(r.data, "driverVersion") \/ ~Has(r.data, "serverVersion")
           THEN /\ connectOut' = "KeyError"
                /\ mainPc' = "idle"
                /\ UNCHANGED <<version, schema_version, closed>>
           ELSE /\ version' = from_message(r.data)
                /\ IF IncompatibleVersion(version')
                   THEN /\ CloseBegin
                        /\ mainPc' = "connect_close"
                        /\ UNCHANGED <<schema_version, connectOut>>
                   ELSE /\ schema_version' = NegotiatedSchema(version', schema_version)
                        /\ mainPc' = "idle"
                        /\ connectOut' = "connected"
                        /\ UNCHANGED closed
    /\ UNCHANGED <<client, result_futures, futures, sent>>
    /\ UNCHANGED <<listenVars, callVars, busVars>>

\* async_connect after the close of a rejected handshake returned
ConnectRejected ==
    /\ mainPc = "connect_close"
    /\ CloseEnd
    /\ mainPc' = "idle"
    /\ connectOut' = "InvalidServerVersion"
    /\ UNCHANGED <<client, schema_version, version, result_futures, futures, sent>>
    /\ UNCHANGED <<listenVars, callVars, busVars>>

\* async_disconnect with its connected test inverted: it returns at once on a
\* connected client
async_disconnect_inverted ==
    /\ mainPc = "idle"
    /\ closed' = IF connected THEN closed ELSE TRUE
    /\ UNCHANGED <<client, schema_version, version, result_futures, futures, sent>>
    /\ UNCHANGED <<mainVars, listenVars, callVars, busVars>>

\* async_disconnect: a no-op when not connected, else the socket is closed.
\* Other tasks that run while close() is awaited see the socket open or
\* closed, as they do before or after this step.
async_disconnect ==
    /\ mainPc = "idle"
    /\ closed' = IF ~connected THEN closed ELSE TRUE
    /\ UNCHANGED <<client, schema_version, version, result_futures, futures, sent>>
    /\ UNCHANGED <<mainVars, listenVars, callVars, busVars>>

--------------------------------------------------------------------------
(* async_listen: the receive task *)

\* the cancel loop leaving after the first future it cancels
CancelAll_first_only(futs, keys) ==
    LET pending == {id \in keys : futs[id].state = "PENDING"}
        first == CHOOSE id \in pending : TRUE
    IN  [id \in DOMAIN futs |->
            IF pending # {} /\ id = first THEN CancelledFuture ELSE futs[id]]

\* the loop over self._result_futures.values() of the finally block:
\* Future.cancel() cancels a pending future and leaves a done one alone
CancelAll(futs, keys) ==
    [id \in DOMAIN futs |->
        IF id \in keys /\ futs[id].state = "PENDING" THEN CancelledFuture ELSE futs[id]]

\* the end of async_listen without its "except ConnectionClosed: pass"
ListenFinish_no_except(exc) ==
    /\ shutdown_complete_event' =
           IF shutdown_complete_event = None THEN None ELSE [set |-> TRUE]
    /\ listenPc' = "done"
    /\ listenExc' = "none"
    /\ listenOut' = IF exc = "" THEN "returned" ELSE exc

\* the end of async_listen: signal shutdown, return or re-raise
ListenFinish(exc) ==
    /\ shutdown_complete_event' =
           IF shutdown_complete_event = None THEN None ELSE [set |-> TRUE]
    /\ listenPc' = "done"
    /\ listenExc' = "none"
    /\ listenOut' = IF exc \in {"", "ConnectionClosed"} THEN "returned" ELSE exc

\* leaving the try block with exception exc ("" for none): "except
\* ConnectionClosed: pass", then the finally block up to its await
ListenCleanup(exc, futs, isClosed) ==
    /\ futures' = CancelAll(futs, result_futures)
    /\ IF ~isClosed
       THEN /\ CloseBegin
            /\ listenPc' = "cleanup_close"
            /\ listenExc' = exc
            /\ UNCHANGED <<listenOut, shutdown_complete_event>>
       ELSE /\ closed' = isClosed
            /\ ListenFinish(exc)

\* async_listen up to its first read: the connected check, then
\* _async_set_api_schema sends its command.  The application calls it on a
\* client it never connected or after async_connect returned.
ListenStart ==
    /\ ListenerIdle
    /\ mainPc = "idle"
    /\ connectOut \in {"none", "connected", "CannotConnectError", "InvalidServerVersion"}
    /\ driver_ready' = 0
    /\ listenExc' = "none"
    /\ IF ~connected
       THEN /\ listenPc' = "done"
            /\ listenOut' = "NotConnectedError"
            /\ UNCHANGED sent
       ELSE /\ sent' = sent \cup {SetApiSchemaFrame}
            /\ listenPc' = "set_api_schema"
            /\ listenOut' = "none"
    /\ UNCHANGED <<state_msg, driver, shutdown_complete_event, result_futures, futures>>
    /\ UNCHANGED <<emitted, observed>>
    /\ UNCHANGED <<clientVars, mainVars, callVars, busVars>>

\* _async_set_api_schema from its read on, and async_listen up to the read of
\* the start_listening result
ListenSetApiSchema(m) ==
    /\ listenPc = "set_api_schema"
    /\ LET r == async_receive_json(m)
       IN  IF r.exc # ""
           THEN ListenCleanup(r.exc, futures, closed) /\ UNCHANGED sent
           ELSE IF ~Has(r.data, "success")
           THEN ListenCleanup("KeyError", futures, closed) /\ UNCHANGED sent
           ELSE IF ~r.data.success
           THEN /\ CloseBegin
                /\ listenPc' = "set_api_close"
                /\ UNCHANGED <<futures, sent, listenExc, listenOut, shutdown_complete_event>>
           ELSE IF ~connected
           THEN ListenCleanup("NotConnectedError", futures, closed) /\ UNCHANGED sent
           ELSE /\ sent' = sent \cup {StartListeningFrame}
                /\ listenPc' = "start_listening"
                /\ UNCHANGED <<futures, closed, listenExc, listenOut,
                               shutdown_complete_event>>
    /\ UNCHANGED <<state_msg, driver, driver_ready, emitted, observed, result_futures>>
    /\ UNCHANGED <<client, schema_version, version, mainVars, callVars, busVars>>

\* async_listen without the success test on the start_listening result: any
\* frame read there is handed to the Driver constructor
ListenStartListening_unchecked(m) ==
    /\ listenPc = "start_listening"
    /\ LET r == async_receive_json(m)
       IN  IF r.exc # ""
           THEN ListenCleanup(r.exc, futures, closed) /\ UNCHANGED state_msg
           ELSE /\ listenPc' = "constructing"
                /\ state_msg' = r.data
                /\ UNCHANGED <<futures, closed, listenExc, listenOut,
                               shutdown_complete_event>>
    /\ UNCHANGED <<driver, driver_ready, emitted, observed, result_futures, sent>>
    /\ UNCHANGED <<client, schema_version, version, mainVars, callVars, busVars>>

\* async_listen from the read of the start_listening result to the executor
\* call that constructs the Driver
ListenStartListening(m) ==
    /\ listenPc = "start_listening"
    /\ LET r == async_receive_json(m)
       IN  IF r.exc # ""
           THEN ListenCleanup(r.exc, futures, closed) /\ UNCHANGED state_msg
           ELSE IF ~Has(r.data, "success")
           THEN ListenCleanup("KeyError", futures, closed) /\ UNCHANGED state_msg
           ELSE IF ~r.data.success
           THEN /\ CloseBegin
                /\ listenPc' = "start_close"
                /\ UNCHANGED <<state_msg, futures, listenExc, listenOut,
                               shutdown_complete_event>>
           ELSE /\ listenPc' = "constructing"
                /\ state_msg' = r.data
                /\ UNCHANGED <<futures, closed, listenExc, listenOut,
                               shutdown_complete_event>>
    /\ UNCHANGED <<driver, driver_ready, emitted, observed, result_futures, sent>>
    /\ UNCHANGED <<client, schema_version, version, mainVars, callVars, busVars>>

\* the close awaited after a failed bootstrap command returned:
\* FailedCommand is raised and the finally block runs
ListenBootstrapFailed ==
    /\ listenPc \in {"set_api_close", "start_close"}
    /\ ListenCleanup("FailedCommand", futures, TRUE)
    /\ UNCHANGED <<state_msg, driver, driver_ready, emitted, observed, result_futures, sent>>
    /\ UNCHANGED <<client, schema_version, version, mainVars, callVars, busVars>>

\* driver_ready.set() called before the Driver is constructed: the event is
\* set also when the constructor raises
ListenDriverReady_set_first ==
    /\ listenPc = "constructing"
    /\ state_msg' = None
    /\ driver_ready' = driver_ready + 1
    /\ IF ~HasSnapshot(state_msg)
       THEN /\ ListenCleanup("KeyError", futures, closed)
            /\ UNCHANGED driver
       ELSE /\ driver' = DriverOf(state_msg)
            /\ IF closed
               THEN ListenCleanup("", futures, closed)
               ELSE /\ listenPc' = "loop"
                    /\ UNCHANGED <<futures, closed, listenExc, listenOut,
                                   shutdown_complete_event>>
    /\ UNCHANGED <<emitted, observed, result_futures, sent>>
    /\ UNCHANGED <<client, schema_version, version, mainVars, callVars, busVars>>

\* the executor call returned: assign self.driver, set driver_ready, and enter
\* the loop unless the socket is closed already
ListenDriverReady ==
    /\ listenPc = "constructing"
    /\ state_msg' = None
    /\ IF ~HasSnapshot(state_msg)
       THEN /\ ListenCleanup("KeyError", futures, closed)
            /\ UNCHANGED <<driver, driver_ready>>
       ELSE /\ driver' = DriverOf(state_msg)
            /\ driver_ready' = driver_ready + 1
            /\ IF closed
               THEN ListenCleanup("", futures, closed)
               ELSE /\ listenPc' = "loop"
                    /\ UNCHANGED <<futures, closed, listenExc, listenOut,
                                   shutdown_complete_event>>
    /\ UNCHANGED <<emitted, observed, result_futures, sent>>
    /\ UNCHANGED <<client, schema_version, version, mainVars, callVars, busVars>>

\* one iteration of the steady-state loop: read a frame, dispatch it, test the
\* loop condition
ListenReceive(m) ==
    /\ listenPc = "loop"
    /\ LET r == async_receive_json(m)
       IN  IF r.exc # ""
           THEN /\ ListenCleanup(r.exc, futures, closed)
                /\ emitted' = << >>
                /\ observed' = None
                /\ UNCHANGED driver
           ELSE LET p == parse_response_payload(r.data, futures, result_futures, driver)
                IN  /\ driver' = p.driver
                    /\ emitted' = p.emitted
                    /\ observed' = p.seen
                    /\ IF p.exc # ""
                       THEN ListenCleanup(p.exc, p.futures, closed)
                       ELSE IF closed
                       THEN ListenCleanup("", p.futures, closed)
                       ELSE /\ futures' = p.futures
                            /\ UNCHANGED <<closed, listenPc, listenExc, listenOut,
                                           shutdown_complete_event>>
    /\ UNCHANGED <<state_msg, driver_ready, result_futures, sent>>
    /\ UNCHANGED <<client, schema_version, version, mainVars, callVars, busVars>>

\* the task running async_listen is cancelled while it is suspended inside
\* the try block
ListenCancelled ==
    /\ listenPc \in {"set_api_schema", "start_listening", "constructing", "loop",
                     "set_api_close", "start_close"}
    /\ ListenCleanup("CancelledError", futures, closed)
    /\ state_msg' = None
    /\ UNCHANGED <<driver, driver_ready, emitted, observed, result_futures, sent>>
    /\ UNCHANGED <<client, schema_version, version, mainVars, callVars, busVars>>

\* the close awaited by the finally block returned
ListenClosed ==
    /\ listenPc = "cleanup_close"
    /\ CloseEnd
    /\ ListenFinish(listenExc)
    /\ UNCHANGED <<state_msg, driver, driver_ready, emitted, observed, result_futures, futures, sent>>
    /\ UNCHANGED <<client, schema_version, version, mainVars, callVars, busVars>>

--------------------------------------------------------------------------
(* async_send_command and async_send_command_no_wait: the callers *)

\* async_send_command up to "await future"
SendCommand(c, require_schema) ==
    /\ callPc[c] = "idle"
    /\ IF SchemaUnavailable(require_schema)
       THEN /\ callPc' = [callPc EXCEPT ![c] = "done"]
            /\ callOut' = [callOut EXCEPT ![c] = [kind |-> "InvalidServerVersion"]]
            /\ UNCHANGED <<callId, next_id, futures, result_futures, sent>>
       ELSE /\ next_id' = next_id + 1
            /\ LET message_id == uuid4(next_id + 1)
               IN  /\ futures' = (message_id :> PendingFuture) @@ futures
                   /\ result_futures' = result_futures \cup {message_id}
                   /\ IF ~connected
                      THEN /\ callPc' = [callPc EXCEPT ![c] = "done"]
                           /\ callOut' = [callOut EXCEPT ![c] =
                                             [kind |-> "NotConnectedError"]]
                           /\ UNCHANGED <<callId, sent>>
                      ELSE /\ sent' = sent \cup {CommandFrame(message_id)}
                           /\ callPc' = [callPc EXCEPT ![c] = "waiting"]
                           /\ callId' = [callId EXCEPT ![c] = message_id]
                           /\ callOut' = [callOut EXCEPT ![c] = [kind |-> "none"]]
    /\ UNCHANGED <<clientVars, mainVars, listenVars, busVars>>

\* async_send_command_no_wait writing to the socket without the connected
\* test of _async_send_json
SendCommandNoWait_no_check(c, require_schema) ==
    /\ callPc[c] = "idle"
    /\ IF SchemaUnavailable(require_schema)
       THEN /\ callOut' = [callOut EXCEPT ![c] = [kind |-> "InvalidServerVersion"]]
            /\ UNCHANGED <<next_id, sent>>
       ELSE /\ next_id' = next_id + 1
            /\ sent' = sent \cup {CommandFrame(uuid4(next_id + 1))}
            /\ callOut' = [callOut EXCEPT ![c] = [kind |-> "returned"]]
    /\ callPc' = [callPc EXCEPT ![c] = "done"]
    /\ UNCHANGED <<callId, futures, result_futures>>
    /\ UNCHANGED <<clientVars, mainVars, listenVars, busVars>>

\* async_send_command_no_wait
SendCommandNoWait(c, require_schema) ==
    /\ callPc[c] = "idle"
    /\ IF SchemaUnavailable(require_schema)
       THEN /\ callOut' = [callOut EXCEPT ![c] = [kind |-> "InvalidServerVersion"]]
            /\ UNCHANGED <<next_id, sent>>
       ELSE /\ next_id' = next_id + 1
            /\ IF ~connected
               THEN /\ callOut' = [callOut EXCEPT ![c] = [kind |-> "NotConnectedError"]]
                    /\ UNCHANGED sent
               ELSE /\ sent' = sent \cup {CommandFrame(uuid4(next_id + 1))}
                    /\ callOut' = [callOut EXCEPT ![c] = [kind |-> "returned"]]
    /\ callPc' = [callPc EXCEPT ![c] = "done"]
    /\ UNCHANGED <<callId, futures, result_futures>>
    /\ UNCHANGED <<clientVars, mainVars, listenVars, busVars>>

\* what "await future" gives the caller once the future is done
Outcome(future) ==
    IF future.state = "CANCELLED" THEN [kind |-> "CancelledError"]
    ELSE IF Has(future, "exception") THEN [kind |-> "raised", exception |-> future.exception]
    ELSE [kind |-> "result", result |-> future.result]

\* async_send_command popping its message id only when the future gave a
\* result ("finally" written as "else")
Resume_pop_on_result(c) ==
    /\ callPc[c] = "waiting"
    /\ futures[callId[c]].state # "PENDING"
    /\ callOut' = [callOut EXCEPT ![c] = Outcome(futures[callId[c]])]
    /\ result_futures' = IF Has(futures[callId[c]], "result")
                         THEN result_futures \ {callId[c]}
                         ELSE result_futures
    /\ callPc' = [callPc EXCEPT ![c] = "done"]
    /\ UNCHANGED <<callId, futures, sent, next_id>>
    /\ UNCHANGED <<clientVars, mainVars, listenVars, busVars>>

\* async_send_command from "await future" on: the caller resumes with the
\* outcome of its future and the finally block pops the message id
Resume(c) ==
    /\ callPc[c] = "waiting"
    /\ futures[callId[c]].state # "PENDING"
    /\ callOut' = [callOut EXCEPT ![c] = Outcome(futures[callId[c]])]
    /\ result_futures' = result_futures \ {callId[c]}
    /\ callPc' = [callPc EXCEPT ![c] = "done"]
    /\ UNCHANGED <<callId, futures, sent, next_id>>
    /\ UNCHANGED <<clientVars, mainVars, listenVars, busVars>>

--------------------------------------------------------------------------
(* EventBase: on, once, emit *)

\* the interpreter's recursion limit: deeper than any emission of the model
\* that comes to an end
MaxDepth == MaxListeners

\* an entry of a listener list: an application callback (once = 0), or the
\* n-th event_listener closure once() made around one (once = n)
Listener(fn, n) == [fn |-> fn, once |-> n]

\* the members of a list
Range(seq) == {seq[i] : i \in DOMAIN seq}

\* list.remove(x): the list without its first element equal to x
Remove(seq, x) ==
    LET first == CHOOSE i \in DOMAIN seq : seq[i] = x /\ \A j \in 1..(i - 1) : seq[j] # x
    IN  [i \in 1..(Len(seq) - 1) |-> IF i < first THEN seq[i] ELSE seq[i + 1]]

\* self._listeners.get(event_name, [])
ListenersOf(ls, event_name) == IF Has(ls, event_name) THEN ls[event_name] ELSE << >>

\* on() putting the new callback at the head of the list
on_prepend(ls, event_name, callback) ==
    [name \in DOMAIN ls \cup {event_name} |->
        IF name = event_name THEN <<callback>> \o ListenersOf(ls, event_name) ELSE ls[name]]

\* EventBase.on: setdefault, then append; the dictionary afterwards
on(ls, event_name, callback) ==
    [name \in DOMAIN ls \cup {event_name} |->
        IF name = event_name THEN Append(ListenersOf(ls, event_name), callback) ELSE ls[name]]

\* the closure on() returns: it holds the list of its event name and the
\* callback
Unsub(event_name, callback) == [event_name |-> event_name, callback |-> callback]

\* unsubscribe(): "if callback in listeners: listeners.remove(callback)"
unsubscribe(ls, unsub) ==
    IF unsub.callback \in Range(ls[unsub.event_name])
    THEN [ls EXCEPT ![unsub.event_name] = Remove(@, unsub.callback)]
    ELSE ls

RECURSIVE emit_from(_, _, _, _, _)

\* the application callback behind listener l is called with data: the call
\* is logged, and r emits "a" again from inside it
callback(st, l, data, depth) ==
    LET called == [st EXCEPT !.calls = Append(@, [listener |-> l, data |-> data]),
                             !.fired = IF l.once > 0
                                       THEN [@ EXCEPT ![l.once] = @ + 1] ELSE @]
    IN  IF l.fn # "r" THEN called
        ELSE IF depth >= MaxDepth THEN [called EXCEPT !.exc = "RecursionError"]
        ELSE emit_from(called, "a", data, 1, depth + 1)

\* event_listener calling the callback before it unsubscribes itself
event_listener_callback_first(st, l, event_name, data, depth) ==
    LET done == callback(st, l, data, depth)
    IN  IF done.exc # "" THEN done
        ELSE [done EXCEPT !.listeners = unsubscribe(@, Unsub(event_name, l))]

\* the event_listener closure of once(): "unsub()", then "callback(data)"
event_listener(st, l, event_name, data, depth) ==
    callback([st EXCEPT !.listeners = unsubscribe(@, Unsub(event_name, l))],
             l, data, depth)

\* the for loop of emit from position i of the list on: the list is the one
\* the callbacks change, read again at every step
emit_from(st, event_name, data, i, depth) ==
    IF st.exc # "" THEN st
    ELSE IF i > Len(ListenersOf(st.listeners, event_name)) THEN st
    ELSE LET l == st.listeners[event_name][i]
             after == IF l.once > 0
                      THEN event_listener(st, l, event_name, data, depth)
                      ELSE callback(st, l, data, depth)
         IN  emit_from(after, event_name, data, i + 1, depth)

\* EventBase.emit called by the application: the bus afterwards, the calls
\* made and the exception raised ("" for none)
emit(ls, counts, event_name, data) ==
    emit_from([listeners |-> ls, calls |-> << >>, fired |-> counts, exc |-> ""],
              event_name, data, 1, 0)

\* number of entries in all lists
Subscribed == LET RECURSIVE Sum(_)
                  Sum(names) == IF names = {} THEN 0
                                ELSE LET n == CHOOSE x \in names : TRUE
                                     IN  Len(listeners[n]) + Sum(names \ {n})
              IN  Sum(DOMAIN listeners)

\* the unsubscribe closures the application holds that still find their
\* callback in their list; calling any other one changes nothing
HeldUnsubs ==
    UNION {{Unsub(name, l) : l \in Range(listeners[name])} : name \in DOMAIN listeners}

\* the application subscribes a callback
On(event_name, fn) ==
    /\ Subscribed < MaxListeners
    /\ listeners' = on(listeners, event_name, Listener(fn, 0))
    /\ UNCHANGED <<onces, calls, fired, emitOut, handles>>
    /\ UNCHANGED wsVars

\* the application subscribes a callback with once()
Once(event_name, fn) ==
    /\ Subscribed < MaxListeners
    /\ onces < MaxListeners
    /\ onces' = onces + 1
    /\ listeners' = on(listeners, event_name, Listener(fn, onces + 1))
    /\ UNCHANGED <<calls, fired, emitOut, handles>>
    /\ UNCHANGED wsVars

\* the application calls an unsubscribe closure it holds
Unsubscribe(unsub) ==
    /\ listeners' = unsubscribe(listeners, unsub)
    /\ UNCHANGED <<onces, calls, fired, emitOut, handles>>
    /\ UNCHANGED wsVars

\* the application emits an event
Emit(event_name, data) ==
    /\ LET st == emit(listeners, fired, event_name, data)
       IN  /\ listeners' = st.listeners
           /\ calls' = st.calls
           /\ fired' = st.fired
           /\ emitOut' = IF st.exc = "" THEN "returned" ELSE st.exc
    /\ UNCHANGED <<onces, handles>>
    /\ UNCHANGED wsVars

NextBus ==
    \/ \E event_name \in EventNames, fn \in Callbacks : On(event_name, fn)
    \/ \E event_name \in EventNames, fn \in Callbacks : Once(event_name, fn)
    \/ \E unsub \in HeldUnsubs : Unsubscribe(unsub)
    \/ \E event_name \in EventNames, data \in Datas : Emit(event_name, data)

SpecBus == Init /\ [][NextBus]_vars

\* a closure on() returned, kept by the application, and the number of times
\* it was called since (2 stands for two or more)
Handle(unsub, n) == [unsub |-> unsub, called |-> n]

\* the application subscribes a callback and keeps the closure on() returns
OnKeep(event_name, fn) ==
    /\ Len(handles) < MaxListeners
    /\ listeners' = on(listeners, event_name, Listener(fn, 0))
    /\ handles' = Append(handles, Handle(Unsub(event_name, Listener(fn, 0)), 0))
    /\ UNCHANGED <<onces, calls, fired, emitOut>>
    /\ UNCHANGED wsVars

\* the application subscribes a callback with once() and keeps the closure
\* once() returns, which is the one on() made for event_listener
OnceKeep(event_name, fn) ==
    /\ Len(handles) < MaxListeners
    /\ onces < MaxListeners
    /\ onces' = onces + 1
    /\ listeners' = on(listeners, event_name, Listener(fn, onces + 1))
    /\ handles' = Append(handles, Handle(Unsub(event_name, Listener(fn, onces + 1)), 0))
    /\ UNCHANGED <<calls, fired, emitOut>>
    /\ UNCHANGED wsVars

\* the application calls the k-th closure it kept
CallUnsub(k) ==
    /\ listeners' = unsubscribe(listeners, handles[k].unsub)
    /\ handles' = [handles EXCEPT ![k].called = IF @ < 2 THEN @ + 1 ELSE @]
    /\ UNCHANGED <<onces, calls, fired, emitOut>>
    /\ UNCHANGED wsVars

NextUnsub ==
    \/ \E event_name \in EventNames, fn \in Callbacks : OnKeep(event_name, fn)
    \/ \E event_name \in EventNames, fn \in Callbacks : OnceKeep(event_name, fn)
    \/ \E k \in DOMAIN handles : CallUnsub(k)
    \/ \E event_name \in EventNames, data \in Datas : Emit(event_name, data)

SpecUnsub == Init /\ [][NextUnsub]_vars

--------------------------------------------------------------------------
(* Specification *)

Next ==
    \/ ConnectOpen
    \/ \E m \in HandshakeFrames : ConnectHandshake(m)
    \/ ConnectRejected
    \/ async_disconnect
    \/ ListenStart
    \/ \E m \in ServerFrames : ListenSetApiSchema(m)
    \/ \E m \in ServerFrames : ListenStartListening(m)
    \/ ListenBootstrapFailed
    \/ ListenDriverReady
    \/ \E m \in ServerFrames : ListenReceive(m)
    \/ ListenCancelled
    \/ ListenClosed
    \/ \E c \in Callers, r \in RequireSchemas : SendCommand(c, r)
    \/ \E c \in Callers, r \in RequireSchemas : SendCommandNoWait(c, r)
    \/ \E c \in Callers : Resume(c)

Spec == Init /\ [][Next]_vars

--------------------------------------------------------------------------
(* The steady-state loop fed with events only *)

\* the client after async_connect accepted the handshake and async_listen
\* built the Driver from the snapshot: the loop is about to read
InitLoop ==
    /\ client = "ws"
    /\ closed = FALSE
    /\ result_futures = {}
    /\ futures = << >>
    /\ schema_version = MAX_SERVER_SCHEMA_VERSION
    /\ version = from_message([driverVersion |-> "0.8.2", serverVersion |-> "0.1.2",
                               minSchemaVersion |-> MIN_SERVER_SCHEMA_VERSION,
                               maxSchemaVersion |-> MAX_SERVER_SCHEMA_VERSION])
    /\ \E snapshot \in {Snapshot, TwoStations} :
          driver = DriverOf([type |-> "result", messageId |-> "start_listening",
                             success |-> TRUE, result |-> snapshot])
    /\ shutdown_complete_event = None
    /\ sent = {SetApiSchemaFrame, StartListeningFrame}
    /\ next_id = 0
    /\ mainPc = "idle"
    /\ connectOut = "connected"
    /\ listenPc = "loop"
    /\ listenExc = "none"
    /\ listenOut = "none"
    /\ state_msg = None
    /\ driver_ready = 1
    /\ emitted = << >>
    /\ observed = None
    /\ callPc = [c \in Callers |-> "idle"]
    /\ callId = [c \in Callers |-> "none"]
    /\ callOut = [c \in Callers |-> [kind |-> "none"]]
    /\ listeners = << >>
    /\ onces = 0
    /\ calls = << >>
    /\ fired = [n \in 1..MaxListeners |-> 0]
    /\ emitOut = "none"
    /\ handles = << >>

NextEvents ==
    \/ \E m \in DriverEventFrames : ListenReceive(m)
    \/ ListenClosed

SpecEvents == InitLoop /\ [][NextEvents]_vars

\* the same loop fed with the events that change properties
NextSerial ==
    \/ \E m \in SerialEventFrames : ListenReceive(m)
    \/ ListenClosed

SpecSerial == InitLoop /\ [][NextSerial]_vars

\* the client after async_listen read a successful result of start_listening:
\* the Driver is about to be constructed from it
InitBuild ==
    /\ client = "ws"
    /\ closed = FALSE
    /\ result_futures = {}
    /\ futures = << >>
    /\ schema_version = MAX_SERVER_SCHEMA_VERSION
    /\ version = from_message([driverVersion |-> "0.8.2", serverVersion |-> "0.1.2",
                               minSchemaVersion |-> MIN_SERVER_SCHEMA_VERSION,
                               maxSchemaVersion |-> MAX_SERVER_SCHEMA_VERSION])
    /\ driver = None
    /\ shutdown_complete_event = None
    /\ sent = {SetApiSchemaFrame, StartListeningFrame}
    /\ next_id = 0
    /\ mainPc = "idle"
    /\ connectOut = "connected"
    /\ listenPc = "constructing"
    /\ listenExc = "none"
    /\ listenOut = "none"
    /\ state_msg \in StartListeningResults
    /\ driver_ready = 0
    /\ emitted = << >>
    /\ observed = None
    /\ callPc = [c \in Callers |-> "idle"]
    /\ callId = [c \in Callers |-> "none"]
    /\ callOut = [c \in Callers |-> [kind |-> "none"]]
    /\ listeners = << >>
    /\ onces = 0
    /\ calls = << >>
    /\ fired = [n \in 1..MaxListeners |-> 0]
    /\ emitOut = "none"
    /\ handles = << >>

\* the Driver is constructed and the loop fed with the events that change
\* properties
NextBuild ==
    \/ ListenDriverReady
    \/ \E m \in SerialEventFrames : ListenReceive(m)
    \/ ListenClosed

SpecBuild == InitBuild /\ [][NextBuild]_vars

--------------------------------------------------------------------------
(* Properties *)

\* a text frame carrying a result document
IsResult(m) == m.type = "TEXT" /\ Has(m, "json") /\ m.json.type = "result"

\* caller c is suspended in async_send_command on a command still unresolved
Suspended(c) ==
    /\ callPc[c] = "waiting"
    /\ callId[c] \in result_futures
    /\ futures[callId[c]].state = "PENDING"

\* a future that is done keeps its outcome
DoneFuturesKept ==
    \A id \in DOMAIN futures :
        futures[id].state # "PENDING" => futures'[id] = futures[id]

\* C1: when the receive loop processes a success result frame carrying the
\* message id of a command whose caller is suspended, the command's future is
\* resolved with that frame's result, the outcome is kept until the caller
\* resumes, and the caller resumes with exactly that result.
C1_SuccessResult ==
    [][ /\ \A m \in ServerFrames : \A c \in Callers :
            ( /\ IsResult(m)
              /\ m.json.success
              /\ Suspended(c)
              /\ m.json.messageId = callId[c]
              /\ ListenReceive(m) )
            => futures'[callId[c]] = ResultFuture(m.json.result)
        /\ DoneFuturesKept
        /\ \A c \in Callers :
            (Resume(c) /\ Has(futures[callId[c]], "result"))
            => callOut'[c] = [kind |-> "result", result |-> futures[callId[c]].result]
      ]_vars

\* C1 witness: a caller has resumed with the opaque result while another
\* frame carried the snapshot
C1_Witness ==
    \E c \in Callers :
        /\ callPc[c] = "done"
        /\ callOut[c].kind = "result"
        /\ callOut[c].result = [data |-> "p1"]

\* C2: when the receive loop processes a failure result frame carrying the
\* message id of a command whose caller is suspended, the caller resumes with
\* FailedCommand whose error_code is the frame's errorCode and whose
\* message_id is the command's identifier.
C2_FailureResult ==
    [][ /\ \A m \in ServerFrames : \A c \in Callers :
            ( /\ IsResult(m)
              /\ ~m.json.success
              /\ Suspended(c)
              /\ m.json.messageId = callId[c]
              /\ ListenReceive(m) )
            => futures'[callId[c]] =
                   ExceptionFuture([type |-> "FailedCommand",
                                    message_id |-> callId[c],
                                    error_code |-> m.json.errorCode])
        /\ DoneFuturesKept
        /\ \A c \in Callers :
            (Resume(c) /\ Has(futures[callId[c]], "exception"))
            => /\ callOut'[c] = [kind |-> "raised",
                                 exception |-> futures[callId[c]].exception]
               /\ callOut'[c].exception.type = "FailedCommand"
               /\ callOut'[c].exception.message_id = callId[c]
      ]_vars

\* C2 witness: a caller has resumed with FailedCommand carrying error code e2
C2_Witness ==
    \E c \in Callers :
        /\ callPc[c] = "done"
        /\ callOut[c].kind = "raised"
        /\ callOut[c].exception.error_code = "e2"

\* C3: _parse_response_payload applied to a result frame for a pending
\* command A returns without raising and changes no future but A's; the loop
\* iteration that processes the frame leaves the key set of the
\* pending-command map alone and, the socket being open, leaves every other
\* future as it was and stays in the loop.
C3_OnlyThatCommand ==
    [][ \A m \in ServerFrames :
            ( /\ IsResult(m)
              /\ m.json.messageId \in result_futures
              /\ futures[m.json.messageId].state = "PENDING"
              /\ ListenReceive(m) )
            => LET p == parse_response_payload(m.json, futures, result_futures, driver)
               IN  /\ p.exc = ""
                   /\ p.futures[m.json.messageId].state = "FINISHED"
                   /\ \A id \in DOMAIN futures \ {m.json.messageId} :
                          p.futures[id] = futures[id]
                   /\ result_futures' = result_futures
                   /\ ~closed =>
                        /\ listenPc' = "loop"
                        /\ futures' = p.futures
      ]_vars

\* C3 witness: one command has been resolved by its frame while the other is
\* still pending and the loop is running
C3_Witness ==
    \E a \in Callers : \E b \in Callers \ {a} :
        /\ callPc[a] = "waiting" /\ futures[callId[a]].state = "FINISHED"
        /\ callPc[b] = "waiting" /\ futures[callId[b]].state = "PENDING"
        /\ listenPc = "loop"

\* C4: a call of async_send_command or async_send_command_no_wait whose
\* require_schema is greater than schema_version ends at once with
\* InvalidServerVersion: it sends no frame, registers no future and draws no
\* message id, whether the client is connected or not.
C4_SchemaGuard ==
    [][ \A c \in Callers : \A r \in RequireSchemas :
            ( /\ r # None
              /\ r.value > schema_version
              /\ (SendCommand(c, r) \/ SendCommandNoWait(c, r)) )
            => /\ callPc'[c] = "done"
               /\ callOut'[c] = [kind |-> "InvalidServerVersion"]
               /\ sent' = sent
               /\ result_futures' = result_futures
               /\ futures' = futures
               /\ next_id' = next_id
      ]_vars

\* C4 witness: a call was refused with InvalidServerVersion on a client that
\* never had a socket; nothing was sent or registered
C4_Witness ==
    \E c \in Callers :
        /\ callPc[c] = "done"
        /\ callOut[c].kind = "InvalidServerVersion"
        /\ client = "None"
        /\ sent = {}
        /\ result_futures = {}

\* async_listen is suspended inside its try block
ListenInTry ==
    listenPc \in {"set_api_schema", "start_listening", "constructing", "loop",
                  "set_api_close", "start_close"}

\* C5: when async_listen leaves its try block (socket closed, cancellation or
\* an error), every registered future that is pending is cancelled by that
\* step, unless the frame processed in that very step resolved it; a
\* cancelled future stays cancelled, and the caller that resumes on it
\* observes CancelledError.
C5_ExitCancelsPending ==
    [][ /\ (ListenInTry /\ listenPc' \in {"cleanup_close", "done"})
            => \A id \in result_futures :
                 futures[id].state = "PENDING"
                 => \/ futures'[id] = CancelledFuture
                    \/ \E m \in ServerFrames :
                          /\ IsResult(m)
                          /\ m.json.messageId = id
                          /\ ListenReceive(m)
        /\ \A id \in DOMAIN futures :
             futures[id] = CancelledFuture => futures'[id] = CancelledFuture
        /\ \A c \in Callers :
             (Resume(c) /\ futures[callId[c]] = CancelledFuture)
             => callOut'[c] = [kind |-> "CancelledError"]
      ]_vars

\* C5 witness: two commands were pending when async_listen ended on a closed
\* socket, and both callers resumed with CancelledError
C5_Witness ==
    /\ listenPc = "done"
    /\ listenOut = "returned"
    /\ \A c \in Callers :
         /\ callPc[c] = "done"
         /\ callOut[c].kind = "CancelledError"

\* C6: once a call of async_send_command has completed with a result, with
\* FailedCommand or with cancellation, its message id is not a key of
\* _result_futures.
C6_Deregistered ==
    \A c \in Callers :
        ( /\ callPc[c] = "done"
          /\ callOut[c].kind \in {"result", "raised", "CancelledError"} )
        => callId[c] \notin result_futures

\* C6 witness: one call completed with FailedCommand and the other with
\* cancellation
C6_Witness ==
    \E a \in Callers : \E b \in Callers \ {a} :
        /\ callPc[a] = "done" /\ callOut[a].kind = "raised"
        /\ callPc[b] = "done" /\ callOut[b].kind = "CancelledError"
        /\ result_futures = {}

\* the server's schema range and the client's have a schema in common
RangesOverlap(v) ==
    /\ v.max_schema_version >= MIN_SERVER_SCHEMA_VERSION
    /\ v.min_schema_version <= MAX_SERVER_SCHEMA_VERSION

\* the smaller of two integers
Min(a, b) == IF a < b THEN a ELSE b

\* C7: after a handshake whose schema range does not overlap the client's,
\* async_connect is closing the socket or has ended with
\* InvalidServerVersion on a closed socket: the client is not connected.
C7_NoOverlapRejected ==
    (version # None /\ ~RangesOverlap(version))
    => \/ mainPc = "connect_close"
       \/ /\ mainPc = "idle"
          /\ connectOut = "InvalidServerVersion"
          /\ closed
          /\ ~connected

\* C7 witness: async_connect has ended with InvalidServerVersion on a
\* handshake whose minimum is above the client's maximum
C7_Witness ==
    /\ version # None
    /\ version.min_schema_version > MAX_SERVER_SCHEMA_VERSION
    /\ version.max_schema_version >= version.min_schema_version
    /\ mainPc = "idle"
    /\ connectOut = "InvalidServerVersion"
    /\ closed

\* C8: after a handshake whose schema range overlaps the client's,
\* async_connect has succeeded and schema_version is the smaller of
\* MAX_SERVER_SCHEMA_VERSION and the server's maxSchemaVersion.
C8_OverlapAccepted ==
    (version # None /\ RangesOverlap(version) /\ mainPc = "idle")
    => /\ connectOut = "connected"
       /\ schema_version = Min(MAX_SERVER_SCHEMA_VERSION, version.max_schema_version)

\* C9: a non-success result read for set_api_schema or start_listening makes
\* async_listen close the socket; when that close returns async_listen ends
\* with FailedCommand, the socket closed, no Driver assigned and driver_ready
\* not set.
C9_BootstrapFailure ==
    [][ /\ \A m \in ServerFrames :
             ( /\ IsResult(m)
               /\ ~m.json.success
               /\ listenPc \in {"set_api_schema", "start_listening"}
               /\ (ListenSetApiSchema(m) \/ ListenStartListening(m)) )
             => /\ listenPc' = IF listenPc = "set_api_schema"
                               THEN "set_api_close" ELSE "start_close"
                /\ driver' = None
                /\ driver_ready' = 0
        /\ ListenBootstrapFailed
             => /\ listenPc' = "done"
                /\ listenOut' = "FailedCommand"
                /\ closed'
                /\ ~connected'
                /\ driver' = None
                /\ driver_ready' = 0
      ]_vars

\* C9 witness: async_listen ended with FailedCommand on the start_listening
\* result, after set_api_schema had succeeded
C9_Witness ==
    /\ listenPc = "done"
    /\ listenOut = "FailedCommand"
    /\ StartListeningFrame \in sent
    /\ closed
    /\ driver = None
    /\ driver_ready = 0

\* a frame whose document reports success
IsSuccess(m) ==
    /\ m.type = "TEXT"
    /\ Has(m, "json")
    /\ Has(m.json, "success")
    /\ m.json.success

Entities(drv, source) == IF source = "station" THEN drv.stations ELSE drv.devices
OtherEntities(drv, source) == IF source = "station" THEN drv.devices ELSE drv.stations

\* an envelope routed to a station or a device by its serial number
IsRouted(e) ==
    /\ Has(e, "source")
    /\ e.source \in {"station", "device"}
    /\ Has(e, "serialNumber")

\* how async_listen is ending: the exception in flight, or the one raised
ListenError == IF listenPc = "done" THEN listenOut ELSE listenExc

\* C11: a "property changed" event for a station (or device) whose serial
\* number is a key of the Driver's map stores event.data.value under
\* event.data.name in that entity's property bag and changes nothing else
\* there, leaves every other station and device as it was, and makes one
\* Driver.emit call, of "property changed" with the event data.
C11_PropertyChanged ==
    [][ \A m \in DriverEventFrames :
          LET e == m.json.event
          IN  ( /\ IsRouted(e)
                /\ e.event = "property changed"
                /\ Has(e, "name") /\ Has(e, "value")
                /\ e.serialNumber \in DOMAIN Entities(driver, e.source)
                /\ ListenReceive(m) )
              => LET old == Entities(driver, e.source)
                     new == Entities(driver', e.source)
                     sn == e.serialNumber
                 IN  /\ DOMAIN new = DOMAIN old
                     /\ DOMAIN new[sn] = DOMAIN old[sn] \cup {e.name}
                     /\ new[sn][e.name] = e.value
                     /\ \A k \in DOMAIN old[sn] \ {e.name} : new[sn][k] = old[sn][k]
                     /\ \A x \in DOMAIN old \ {sn} : new[x] = old[x]
                     /\ OtherEntities(driver', e.source) = OtherEntities(driver, e.source)
                     /\ emitted' = <<[name |-> "property changed", data |-> e]>>
      ]_vars

\* C11 witness: the event for station S1 set its currentMode to 63 and was
\* emitted on the Driver, while station S2 and device D1 are as in the snapshot
C11_Witness ==
    /\ listenPc = "loop"
    /\ "S2" \in DOMAIN driver.stations
    /\ driver.stations["S1"] = [serialNumber |-> "S1", currentMode |-> 63]
    /\ driver.stations["S2"] = [serialNumber |-> "S2", currentMode |-> 0]
    /\ driver.devices["D1"] = [serialNumber |-> "D1", stationSerialNumber |-> "S1"]
    /\ emitted = <<[name |-> "property changed",
                    data |-> [source |-> "station", event |-> "property changed",
                              serialNumber |-> "S1", name |-> "currentMode",
                              value |-> 63]]>>

\* C12: no step changes the key set of the Driver's station map or device
\* map; an event for a station or device whose serial number is not a key
\* ends the loop with KeyError, changes nothing in the Driver and is not
\* emitted.
C12_KeysFixed ==
    [][ /\ DOMAIN driver'.stations = DOMAIN driver.stations
        /\ DOMAIN driver'.devices = DOMAIN driver.devices
        /\ \A m \in DriverEventFrames :
             LET e == m.json.event
             IN  ( /\ IsRouted(e)
                   /\ e.serialNumber \notin DOMAIN Entities(driver, e.source)
                   /\ ListenReceive(m) )
                 => /\ driver' = driver
                    /\ emitted' = << >>
                    /\ listenPc' \in {"cleanup_close", "done"}
                    /\ ListenError' = "KeyError"
      ]_vars

\* C12 witness: the loop has ended with KeyError after events had changed
\* both stations, and the maps still have the snapshot's keys
C12_Witness ==
    /\ listenPc = "done"
    /\ listenOut = "KeyError"
    /\ DOMAIN driver.stations = {"S1", "S2"}
    /\ DOMAIN driver.devices = {"D1"}
    /\ driver.stations["S1"].currentMode = 63
    /\ driver.stations["S2"].currentMode = 63

\* C13: an event whose source is neither "station" nor "device", or that has
\* no source, raises nothing, leaves the Driver's entities alone and is
\* emitted on the Driver with its type and data; the loop goes on.
C13_DriverScoped ==
    [][ \A m \in DriverEventFrames :
          LET e == m.json.event
          IN  ( /\ (~Has(e, "source") \/ e.source \notin {"station", "device"})
                /\ ListenReceive(m) )
              => /\ driver' = driver
                 /\ emitted' = <<[name |-> e.event, data |-> e]>>
                 /\ listenExc' = "none"
                 /\ ~closed => listenPc' = "loop"
      ]_vars

\* a frame _async_receive_json rejects: not a text frame, or text that is
\* not JSON
IsInvalid(m) == m.type = "BINARY" \/ (m.type = "TEXT" /\ ~Has(m, "json"))

\* C14: in the steady-state loop a binary frame or a text frame that is not
\* JSON ends the loop with InvalidMessage and an error frame ends it with
\* ConnectionFailed; the frame reaches no future and no entity, the
\* exception is the one async_listen raises once its cleanup is done, and no
\* frame is read after it.
C14_FatalFrames ==
    [][ /\ \A m \in ServerFrames :
             ( /\ (IsInvalid(m) \/ m.type = "ERROR")
               /\ listenPc = "loop"
               /\ ListenReceive(m) )
             => /\ listenPc' \in {"cleanup_close", "done"}
                /\ ListenError' = IF m.type = "ERROR"
                                  THEN "ConnectionFailed" ELSE "InvalidMessage"
                /\ driver' = driver
                /\ emitted' = << >>
                /\ futures' = CancelAll(futures, result_futures)
        /\ ( /\ listenPc = "cleanup_close"
             /\ listenExc \in {"InvalidMessage", "ConnectionFailed"}
             /\ listenPc' # "cleanup_close" )
             => /\ listenPc' = "done"
                /\ listenOut' = listenExc
        /\ listenPc \in {"cleanup_close", "done"} => listenPc' # "loop"
      ]_vars

\* C14 witness: async_listen raised InvalidMessage after the loop had started
C14_Witness ==
    /\ listenPc = "done"
    /\ listenOut = "InvalidMessage"
    /\ driver_ready = 1
    /\ closed

\* C15: a CLOSE, CLOSED or CLOSING frame read by async_listen, in the
\* bootstrap or in the loop, ends the reading with ConnectionClosed before
\* the frame is handled as a payload; async_listen swallows it and returns.
C15_CloseFrames ==
    [][ /\ \A m \in ServerFrames :
             ( /\ m.type \in {"CLOSE", "CLOSED", "CLOSING"}
               /\ listenPc \in {"set_api_schema", "start_listening", "loop"}
               /\ (ListenSetApiSchema(m) \/ ListenStartListening(m) \/ ListenReceive(m)) )
             => /\ listenPc' \in {"cleanup_close", "done"}
                /\ ListenError' = IF listenPc' = "done"
                                  THEN "returned" ELSE "ConnectionClosed"
                /\ driver' = driver
                /\ futures' = CancelAll(futures, result_futures)
        /\ ( /\ listenPc = "cleanup_close"
             /\ listenExc = "ConnectionClosed"
             /\ listenPc' # "cleanup_close" )
             => /\ listenPc' = "done"
                /\ listenOut' = "returned"
      ]_vars

\* C15 witness: the loop has read a closing frame and async_listen is closing
\* the socket with ConnectionClosed in flight
C15_Witness ==
    /\ listenPc = "cleanup_close"
    /\ listenExc = "ConnectionClosed"
    /\ driver_ready = 1

\* C16: once async_listen has ended after entering its try block, the socket
\* is closed and the shutdown-complete event is set.
C16_ShutdownSignalled ==
    (listenPc = "done" /\ SetApiSchemaFrame \in sent)
    => /\ closed
       /\ shutdown_complete_event = [set |-> TRUE]

\* C17 as stated: on a client that is not connected, async_send_command,
\* async_send_command_no_wait and async_listen end at once with
\* NotConnectedError and send no frame.
C17_NotConnected ==
    [][ /\ \A c \in Callers : \A r \in RequireSchemas :
             (~connected /\ (SendCommand(c, r) \/ SendCommandNoWait(c, r)))
             => /\ callPc'[c] = "done"
                /\ callOut'[c] = [kind |-> "NotConnectedError"]
                /\ sent' = sent
        /\ (~connected /\ ListenStart)
             => /\ listenPc' = "done"
                /\ listenOut' = "NotConnectedError"
                /\ sent' = sent
      ]_vars

\* C17 amended: on a client that is not connected, async_listen ends at once
\* with NotConnectedError, and so do async_send_command and
\* async_send_command_no_wait unless require_schema is greater than
\* schema_version, in which case they end with InvalidServerVersion; no frame
\* is sent in either case.
C17_NotConnectedAmended ==
    [][ /\ \A c \in Callers : \A r \in RequireSchemas :
             (~connected /\ (SendCommand(c, r) \/ SendCommandNoWait(c, r)))
             => /\ callPc'[c] = "done"
                /\ callOut'[c] = IF r # None /\ r.value > schema_version
                                 THEN [kind |-> "InvalidServerVersion"]
                                 ELSE [kind |-> "NotConnectedError"]
                /\ sent' = sent
        /\ (~connected /\ ListenStart)
             => /\ listenPc' = "done"
                /\ listenOut' = "NotConnectedError"
                /\ sent' = sent
      ]_vars

\* C17 witness: on a client that never had a socket, one command ended with
\* NotConnectedError, the other with InvalidServerVersion and async_listen
\* with NotConnectedError; nothing was written
C17_Witness ==
    \E a \in Callers : \E b \in Callers \ {a} :
        /\ callOut[a].kind = "NotConnectedError"
        /\ callOut[b].kind = "InvalidServerVersion"
        /\ listenOut = "NotConnectedError"
        /\ client = "None"
        /\ sent = {}

\* C18: connected holds after async_connect succeeded while the socket is
\* open; it does not hold after async_connect failed with CannotConnectError
\* or InvalidServerVersion, after async_disconnect, or when async_listen ends
\* after entering its try block; async_disconnect changes nothing on a client
\* that is not connected.
C18_Connected ==
    /\ [](/\ (mainPc = "idle" /\ connectOut = "connected" /\ ~closed) => connected
          /\ (mainPc = "idle" /\ connectOut \in {"CannotConnectError", "InvalidServerVersion"})
               => ~connected)
    /\ [][ /\ (ListenInTry \/ listenPc = "cleanup_close") /\ listenPc' = "done"
               => ~connected'
           /\ async_disconnect
               => /\ ~connected'
                  /\ ~connected => (client' = client /\ closed' = closed)
         ]_vars

\* C18 witness: async_connect succeeded and async_disconnect closed the
\* socket, with async_listen never called
C18_Witness ==
    /\ connectOut = "connected"
    /\ mainPc = "idle"
    /\ closed
    /\ listenPc = "idle"
    /\ ~connected

\* callbacks that neither emit nor unsubscribe
PlainCallbacks == {"f", "g"}

\* every entry of the list of event_name is a plain callback subscribed with on
PlainList(event_name) ==
    \A l \in Range(ListenersOf(listeners, event_name)) :
        l.once = 0 /\ l.fn \in PlainCallbacks

\* C19: on() puts the callback at the end of the list of its event name and
\* leaves the other lists alone; an emit on a list whose callbacks neither
\* unsubscribe nor emit calls each entry of that list once, in list order,
\* with the data given, calls nothing else and leaves every list as it was.
C19_EmitInOrder ==
    [][ /\ \A event_name \in EventNames : \A fn \in Callbacks :
             On(event_name, fn)
             => /\ listeners'[event_name] =
                       Append(ListenersOf(listeners, event_name), Listener(fn, 0))
                /\ \A name \in DOMAIN listeners \ {event_name} :
                       listeners'[name] = listeners[name]
        /\ \A event_name \in EventNames : \A data \in Datas :
             (PlainList(event_name) /\ Emit(event_name, data))
             => /\ calls' = [i \in 1..Len(ListenersOf(listeners, event_name)) |->
                                [listener |-> listeners[event_name][i], data |-> data]]
                /\ listeners' = listeners
                /\ emitOut' = "returned"
      ]_vars

\* C19 witness: g then f were subscribed to "a" and f to nothing else, and
\* emit("a", 2) called g and then f, both with 2
C19_Witness ==
    /\ Has(listeners, "a")
    /\ listeners["a"] = <<Listener("g", 0), Listener("f", 0)>>
    /\ calls = <<[listener |-> Listener("g", 0), data |-> 2],
                 [listener |-> Listener("f", 0), data |-> 2]>>
    /\ emitOut = "returned"

\* C20: the callback of a once() registration is called at most once, however
\* many emissions are made and also when the callback emits its own event:
\* every once() registration called in an emission is in no list afterwards.
C20_OnceAtMostOnce ==
    /\ [](\A n \in 1..MaxListeners : fired[n] <= 1)
    /\ [][ \A event_name \in EventNames : \A data \in Datas :
             Emit(event_name, data)
             => \A k \in DOMAIN calls' :
                  calls'[k].listener.once > 0
                  => \A name \in DOMAIN listeners' :
                       calls'[k].listener \notin Range(listeners'[name])
         ]_vars

\* C20 witness: f was subscribed to "a" with on() and then r with once();
\* the emission called f and then r, r emitted "a" again, and the nested
\* emission called f and not r: r was called once and is subscribed no more
C20_Witness ==
    /\ emitOut = "returned"
    /\ Len(calls) = 3
    /\ calls[1].listener = Listener("f", 0)
    /\ calls[2].listener.fn = "r"
    /\ calls[2].listener.once > 0
    /\ fired[calls[2].listener.once] = 1
    /\ calls[3].listener = Listener("f", 0)
    /\ listeners["a"] = <<Listener("f", 0)>>

\* C21: the first call of a closure on() returned takes its callback out of
\* the list of its event name, if it is there, and changes no other list;
\* every later call of the same closure changes no list at all.
C21_UnsubscribeIdempotent ==
    [][ \A k \in DOMAIN handles :
          CallUnsub(k)
          => LET u == handles[k].unsub
             IN  IF handles[k].called = 0
                 THEN /\ \A name \in DOMAIN listeners \ {u.event_name} :
                            listeners'[name] = listeners[name]
                      /\ Len(listeners'[u.event_name]) >= Len(listeners[u.event_name]) - 1
                 ELSE listeners' = listeners
      ]_vars

\* C22: an emission over a list whose callbacks do not emit, some of them
\* subscribed with once() and so unsubscribing themselves when called, ends
\* without an exception and calls every entry the list had when the emission
\* began exactly once.
C22_EmitOverSnapshot ==
    [][ \A event_name \in EventNames : \A data \in Datas :
          ( /\ \A l \in Range(ListenersOf(listeners, event_name)) : l.fn \in PlainCallbacks
            /\ Emit(event_name, data) )
          => LET began == ListenersOf(listeners, event_name)
             IN  /\ emitOut' = "returned"
                 /\ \A l \in Range(began) :
                        Cardinality({k \in DOMAIN calls' : calls'[k].listener = l})
                            = Cardinality({i \in DOMAIN began : began[i] = l})
      ]_vars

\* C23: the serial number every station and every device reports is the key
\* under which the Driver maps it, whatever events were received.
C23_SerialNumberFixed ==
    driver # None
    => /\ \A sn \in DOMAIN driver.stations : driver.stations[sn].serialNumber = sn
       /\ \A sn \in DOMAIN driver.devices : driver.devices[sn].serialNumber = sn

\* the serial numbers of a list of entity states
SerialNumbers(list) == {list[i].serialNumber : i \in DOMAIN list}

C25_VersionInfo ==
    [][ \A m \in TextFrames(VersionPayloads) :
          ConnectHandshake(m)
          => /\ version'.driver_version = m.json.driverVersion
             /\ version'.server_version = m.json.serverVersion
             /\ "minSchemaVersion" \in DOMAIN m.json
                => version'.min_schema_version = m.json.minSchemaVersion
             /\ "maxSchemaVersion" \in DOMAIN m.json
                => version'.max_schema_version = m.json.maxSchemaVersion
             /\ "minSchemaVersion" \notin DOMAIN m.json => version'.min_schema_version = 0
             /\ "maxSchemaVersion" \notin DOMAIN m.json => version'.max_schema_version = 0
      ]_vars

\* C25 witness: a handshake gave a VersionInfo with both schema bounds 0,
\* which async_connect rejects and closes the socket for
C25_Witness ==
    /\ mainPc = "connect_close"
    /\ version # None
    /\ version.driver_version = "0.8.2"
    /\ version.server_version = "0.1.2"
    /\ version.min_schema_version = 0
    /\ version.max_schema_version = 0

\* C26: a result frame read by the loop on an open socket whose messageId is
\* no key of the pending-command map, or is the key of a command that is
\* resolved or cancelled already, raises nothing, changes no future and
\* leaves the loop reading.
C26_StaleResultDiscarded ==
    [][ \A m \in TextFrames(ResultPayloads) :
          ( /\ ~closed
            /\ \/ m.json.messageId \notin result_futures
               \/ futures[m.json.messageId].state # "PENDING"
            /\ ListenReceive(m) )
          => /\ futures' = futures
             /\ listenPc' = "loop"
             /\ listenOut' = listenOut
             /\ listenExc' = listenExc
      ]_vars

\* C27: a frame whose type is neither "result" nor "event", read by the loop
\* on an open socket, changes no future and no entity, makes the Driver emit
\* nothing, raises nothing and leaves the loop reading.
C27_UnknownTypeIgnored ==
    [][ \A m \in TextFrames(UnknownPayloads) :
          (~closed /\ ListenReceive(m))
          => /\ futures' = futures
             /\ result_futures' = result_futures
             /\ driver' = driver
             /\ emitted' = << >>
             /\ listenPc' = "loop"
             /\ listenOut' = listenOut
             /\ listenExc' = listenExc
      ]_vars

\* C27 witness: after an event changed station S1 and was emitted, the loop
\* processed a frame that emitted nothing; a command is still pending and the
\* loop is reading with nothing raised
C27_Witness ==
    /\ listenPc = "loop"
    /\ listenExc = "none"
    /\ listenOut = "none"
    /\ ~closed
    /\ driver # None
    /\ driver.stations["S1"].currentMode = 63
    /\ emitted = << >>
    /\ \E id \in result_futures : futures[id].state = "PENDING"

\* the entity that receives event e has no handler for its type: a known
\* station or device whose class lacks the method, or the Driver, which has
\* no handler at all
Unhandled(e) ==
    /\ Has(e, "source")
    /\ IF e.source = "station"
       THEN /\ Has(e, "serialNumber")
            /\ e.serialNumber \in DOMAIN driver.stations
            /\ e.event \notin Handlers("station")
       ELSE IF e.source = "device"
       THEN /\ Has(e, "serialNumber")
            /\ e.serialNumber \in DOMAIN driver.devices
            /\ e.event \notin Handlers("device")
       ELSE TRUE

\* C28: an event whose type the receiving entity (the Driver, a known station
\* or a known device) has no handler for raises nothing and changes no
\* property of any entity; the loop reads on and the Driver emits the event
\* once, with its type and its data.
C28_UnhandledEvent ==
    [][ \A m \in DriverEventFrames :
          (~closed /\ Unhandled(m.json.event) /\ ListenReceive(m))
          => /\ driver' = driver
             /\ emitted' = <<[name |-> m.json.event.event, data |-> m.json.event]>>
             /\ listenPc' = "loop"
             /\ listenExc' = listenExc
             /\ listenOut' = listenOut
      ]_vars

\* C28 witness: "motion detected" for device D1, a type Device has no handler
\* for, was emitted by the Driver and the loop is reading
C28_Witness ==
    /\ listenPc = "loop"
    /\ listenOut = "none"
    /\ emitted = <<[name |-> "motion detected",
                    data |-> [source |-> "device", event |-> "motion detected",
                              serialNumber |-> "D1"]]>>

\* event e names a station or a device the Driver maps
Routed(e) ==
    /\ Has(e, "source")
    /\ Has(e, "serialNumber")
    /\ \/ e.source = "station" /\ e.serialNumber \in DOMAIN driver.stations
       \/ e.source = "device" /\ e.serialNumber \in DOMAIN driver.devices

\* C29: for an event routed to a known station or device whose handler
\* returns, the Driver emits once, and a callback of the Driver reads the
\* entities as the handler left them: after "property changed" it reads the
\* new value of the property.  When the handler raises, nothing is emitted.
C29_EmitAfterHandler ==
    [][ \A m \in DriverEventFrames :
          LET e == m.json.event
          IN  (Routed(e) /\ ListenReceive(m))
              => IF e.event = "property changed" /\ ~Has(e, "name")
                 THEN emitted' = << >> /\ observed' = None
                 ELSE /\ emitted' = <<[name |-> e.event, data |-> e]>>
                      /\ observed' = driver'
                      /\ e.event = "property changed"
                         => LET map == IF e.source = "station" THEN observed'.stations
                                       ELSE observed'.devices
                            IN  map[e.serialNumber][e.name] = e.value
      ]_vars

\* C29 witness: device D1 got guardMode 63 by a "property changed" event, and
\* the callback of the Driver read that value during the emission
C29_Witness ==
    /\ Len(emitted) = 1
    /\ emitted[1].name = "property changed"
    /\ emitted[1].data.source = "device"
    /\ emitted[1].data.name = "guardMode"
    /\ emitted[1].data.value = 63
    /\ observed # None
    /\ observed.devices["D1"].guardMode = 63
    /\ driver.devices["D1"].guardMode = 63

\* C30: every key of the pending-command map is the message id of a caller
\* that is inside async_send_command, waiting for its future; when no caller
\* is waiting the map is empty.
C30_KeysHaveCallers ==
    /\ \A id \in result_futures :
          \E c \in Callers : callPc[c] = "waiting" /\ callId[c] = id
    /\ (\A c \in Callers : callPc[c] # "waiting") => result_futures = {}

\* C31: when async_listen ends, by returning or by raising, no caller of
\* async_send_command is left waiting for a future that is still pending: the
\* socket is not open any more and nothing is left that would resolve, fail
\* or cancel it.
C31_NoCallerLeftWaiting ==
    [][ (listenPc # "done" /\ listenPc' = "done")
        => \A c \in Callers :
              ~( /\ callPc'[c] = "waiting"
                 /\ callId'[c] \in result_futures'
                 /\ futures'[callId'[c]].state = "PENDING" )
      ]_vars

\* frame m is a text frame carrying the result of the command message_id
ResultOf(m, message_id) ==
    /\ m.type = "TEXT"
    /\ Has(m, "json")
    /\ m.json.type = "result"
    /\ m.json.messageId = message_id

\* frame m is one a server answering the commands it was sent may deliver:
\* a result frame carries the message id of a frame the client wrote
Answers(m) ==
    (m.type = "TEXT" /\ Has(m, "json") /\ m.json.type = "result")
    => \E f \in sent : f.messageId = m.json.messageId

\* C32: with a server that sends results only for commands it received, the
\* frame async_listen goes on with after set_api_schema is the result frame
\* of set_api_schema, and the frame whose payload it keeps as the initial
\* state is the result frame of start_listening, also when the result of
\* another command arrives in between.
C32_BootstrapResults ==
    [][ \A m \in ServerFrames :
          Answers(m)
          => /\ (ListenSetApiSchema(m) /\ listenPc' = "start_listening")
                => ResultOf(m, "set_api_schema")
             /\ (ListenStartListening(m) /\ listenPc' = "constructing")
                => ResultOf(m, "start_listening")
      ]_vars

UnknownTarget(e) ==
    /\ driver # None
    /\ Has(e, "source")
    /\ Has(e, "serialNumber")
    /\ \/ e.source = "station" /\ e.serialNumber \notin DOMAIN driver.stations
       \/ e.source = "device" /\ e.serialNumber \notin DOMAIN driver.devices

\* C34: an event frame for a serial number the Driver does not map, read by
\* the steady-state loop, ends the loop with KeyError: nothing is emitted, no
\* entity changes, every command pending then is cancelled and no command is
\* resolved; the cleanup that follows processes no frame, and async_listen
\* has ended only with the socket closed.
C34_UnknownSerialFatal ==
    /\ []((listenPc = "done" /\ listenOut = "KeyError") => closed)
    /\ [][ /\ \A m \in TextFrames(EventPayloads) :
                (UnknownTarget(m.json.event) /\ ListenReceive(m))
                => /\ emitted' = << >>
                   /\ driver' = driver
                   /\ listenPc' \in {"cleanup_close", "done"}
                   /\ ListenError' = "KeyError"
                   /\ \A id \in result_futures :
                         futures'[id] = IF futures[id].state = "PENDING"
                                        THEN CancelledFuture ELSE futures[id]
           /\ listenPc = "cleanup_close"
              => /\ listenPc' \in {"cleanup_close", "done"}
                 /\ emitted' = emitted
                 /\ driver' = driver
         ]_vars

\* C34 witness: after the Driver was built, an event for an unknown serial
\* number ended async_listen with KeyError: nothing was emitted, the socket
\* is closed and the command that was pending is cancelled, its caller not
\* yet resumed
C34_Witness ==
    /\ listenPc = "done"
    /\ listenOut = "KeyError"
    /\ driver # None
    /\ driver_ready = 1
    /\ emitted = << >>
    /\ closed
    /\ \E c \in Callers :
          /\ callPc[c] = "waiting"
          /\ futures[callId[c]] = CancelledFuture

====
